---------------------------- MODULE Spec2Model ----------------------------
(***************************************************************************)
(* A model of the Nepali Roman -> Devanagari transliteration engine        *)
(* (nepali_romanizer/transliterator.py).                                   *)
(*                                                                         *)
(* Strings are sequences of characters; a character is a one-element name. *)
(* ASCII characters stand for themselves ("k", " ", "\t").  A character    *)
(* above code point 127 is written by name: Devanagari glyphs are "dv_..." *)
(* ("dv_ka" is U+0915, "dv_sign_aa" the matra U+093E, "dv_virama" the      *)
(* halant U+094D, "dv_candrabindu" U+0901, "dv_danda" U+0964), any other   *)
(* by code point ("U+212A" is KELVIN SIGN, "U+00C9" and "U+00E9" are E     *)
(* with acute, capital and small, "U+2026" is the ellipsis).               *)
(*                                                                         *)
(* Positions are 0-based as in the source.  Where a Python statement       *)
(* assigns a value that is used several times, the operator binds it with  *)
(* v \in {e}, which stands for the assignment v = e.                       *)
(*                                                                         *)
(* Five specifications: Spec is one call of transliterate on an engine     *)
(* that has served at most one earlier call, SpecSession a sequence of     *)
(* calls on the shared engine, SpecSplit the nested calls of               *)
(* transliterate_word for a text of one word, one step per call or return, *)
(* SpecRules the loop of transliterate_word_rules, one step per iteration, *)
(* SpecThreads two threads calling transliterate at once, one step per     *)
(* read or write of the shared _instance and of the engine's cache.        *)
(***************************************************************************)
EXTENDS Integers, Sequences, FiniteSets, TLC

VARIABLES
    WORD_DICT,    \* the exception dictionary as loaded at import time
    instance,     \* the module-level _instance: "None" or the engine it names
    cache,        \* NepaliTransliterator.cache: lower-cased word -> rendering
    text,         \* argument of the last transliterate call
    out,          \* its result
    freshOut,     \* what an engine with an empty cache returns for the same text
    units,        \* render units of the last call (words joined, rendering, context)
    history,      \* the calls made so far, in order: <<text, result>>
    word,         \* argument of the innermost active transliterate_word call
    stack,        \* the transliterate_word calls waiting for a recursive call
    ret,          \* value returned by the transliterate_word call that ended last
    pos,          \* transliterate_word_rules: the loop position
    result,       \* transliterate_word_rules: the glyphs appended so far
    step,         \* transliterate_word_rules: what the last iteration did
    threads,      \* the threads calling transliterate: thread -> its locals
    engines,      \* the NepaliTransliterator objects built: engine -> its cache
    texts,        \* argument of the last transliterate_batch call
    results,      \* its result
    pc            \* where the run is: "fresh", "warm", "called", "session",
                  \* or inside a call: "split_call", "split_return",
                  \* "split_done", "RecursionError", "rules_loop",
                  \* "rules_done", "threads", "AttributeError"

\* The state of one run of transliterate_word_rules
rulesVars == <<pos, result, step>>

\* The state of the threads and of the engines they build
threadVars == <<threads, engines>>

\* The state of a batch call
batchVars == <<texts, results>>

vars ==
    <<WORD_DICT, instance, cache, text, out, freshOut, units, history, word, stack,
      ret, rulesVars, threadVars, batchVars, pc>>

-----------------------------------------------------------------------------
(* Unicode constants (transliterator.py lines 24-28) *)

HALANT == "dv_virama"
CHANDRABINDU == "dv_candrabindu"

-----------------------------------------------------------------------------
(* Characters *)

UpperCase == <<"A","B","C","D","E","F","G","H","I","J","K","L","M",
               "N","O","P","Q","R","S","T","U","V","W","X","Y","Z">>
LowerCase == <<"a","b","c","d","e","f","g","h","i","j","k","l","m",
               "n","o","p","q","r","s","t","u","v","w","x","y","z">>

\* KELVIN SIGN: a non-ASCII character whose str.lower() is the ASCII letter k.
KelvinSign == "U+212A"

\* LATIN CAPITAL LETTER E WITH ACUTE and its lower-case form: two non-ASCII
\* characters that str.lower() identifies.
CapitalEAcute == "U+00C9"
SmallEAcute == "U+00E9"

\* str.lower() on one character.
LowerChar(c) ==
    IF \E k \in 1..26 : UpperCase[k] = c
    THEN LowerCase[CHOOSE k \in 1..26 : UpperCase[k] = c]
    ELSE IF c = KelvinSign THEN "k"
    ELSE IF c = CapitalEAcute THEN SmallEAcute ELSE c

\* str.lower()
Lower(s) == [k \in 1..Len(s) |-> LowerChar(s[k])]

Digits == {"0","1","2","3","4","5","6","7","8","9"}

\* str.isdigit() on one character of the input alphabet
IsDigit(c) == c \in Digits

\* str.isspace()
IsSpace(c) == c \in {" ", "\t", "\n"}

\* The Devanagari characters the tables can emit, with the ten digits and
\* OM (U+0950), which no table emits.
Devanagari ==
  { "dv_a", "dv_aa", "dv_ai", "dv_au", "dv_ba", "dv_bha", "dv_ca",
    "dv_candrabindu", "dv_cha", "dv_da", "dv_danda", "dv_dha",
    "dv_digit_eight", "dv_digit_five", "dv_digit_four", "dv_digit_nine",
    "dv_digit_one", "dv_digit_seven", "dv_digit_six", "dv_digit_three",
    "dv_digit_two", "dv_digit_zero", "dv_e", "dv_ga", "dv_gha", "dv_ha",
    "dv_i", "dv_ii", "dv_ja", "dv_jha", "dv_ka", "dv_kha", "dv_la",
    "dv_ma", "dv_na", "dv_nga", "dv_nya", "dv_o", "dv_pa", "dv_pha",
    "dv_ra", "dv_sa", "dv_sha", "dv_sign_aa", "dv_sign_ai", "dv_sign_au",
    "dv_sign_e", "dv_sign_i", "dv_sign_ii", "dv_sign_o", "dv_sign_u",
    "dv_sign_uu", "dv_sign_vocalic_r", "dv_ssa", "dv_ta", "dv_tha",
    "dv_tta", "dv_u", "dv_uu", "dv_va", "dv_virama", "dv_vocalic_r",
    "dv_ya", "dv_om" }

\* ord(char) > 127
NonAscii(c) == c \in Devanagari \union {KelvinSign, CapitalEAcute, SmallEAcute, "U+2026"}

-----------------------------------------------------------------------------
(* Phoneme mappings (transliterator.py lines 38-151) *)

\* (roman_pattern, devanagari_base), longest first
CONSONANTS ==
  << <<<<"n", "c", "h", "h">>, <<"dv_na", "dv_virama", "dv_cha">>>>,
     <<<<"c", "c", "h", "h">>, <<"dv_ca", "dv_virama", "dv_cha">>>>,
     <<<<"c", "h", "h">>, <<"dv_cha">>>>,
     <<<<"k", "s", "h">>, <<"dv_ka", "dv_virama", "dv_ssa">>>>,
     <<<<"g", "y", "a">>, <<"dv_ja", "dv_virama", "dv_nya">>>>,
     <<<<"g", "n", "y">>, <<"dv_ja", "dv_virama", "dv_nya">>>>,
     <<<<"j", "n", "y">>, <<"dv_ja", "dv_virama", "dv_nya">>>>,
     <<<<"s", "h", "r">>, <<"dv_sha", "dv_virama", "dv_ra">>>>,
     <<<<"s", "h", "w">>, <<"dv_sha", "dv_virama", "dv_va">>>>,
     <<<<"t", "r", "a">>, <<"dv_ta", "dv_virama", "dv_ra">>>>,
     <<<<"k", "h">>, <<"dv_kha">>>>,
     <<<<"g", "h">>, <<"dv_gha">>>>,
     <<<<"c", "h">>, <<"dv_ca">>>>,
     <<<<"j", "h">>, <<"dv_jha">>>>,
     <<<<"t", "h">>, <<"dv_tha">>>>,
     <<<<"d", "h">>, <<"dv_dha">>>>,
     <<<<"p", "h">>, <<"dv_pha">>>>,
     <<<<"b", "h">>, <<"dv_bha">>>>,
     <<<<"s", "h">>, <<"dv_sha">>>>,
     <<<<"n", "g">>, <<"dv_nga">>>>,
     <<<<"n", "y">>, <<"dv_nya">>>>,
     <<<<"x", "a">>, <<"dv_cha">>>>,
     <<<<"k", "k">>, <<"dv_ka", "dv_virama", "dv_ka">>>>,
     <<<<"g", "g">>, <<"dv_ga", "dv_virama", "dv_ga">>>>,
     <<<<"c", "c">>, <<"dv_ca", "dv_virama", "dv_ca">>>>,
     <<<<"j", "j">>, <<"dv_ja", "dv_virama", "dv_ja">>>>,
     <<<<"t", "t">>, <<"dv_ta", "dv_virama", "dv_ta">>>>,
     <<<<"d", "d">>, <<"dv_da", "dv_virama", "dv_da">>>>,
     <<<<"n", "n">>, <<"dv_na", "dv_virama", "dv_na">>>>,
     <<<<"p", "p">>, <<"dv_pa", "dv_virama", "dv_pa">>>>,
     <<<<"b", "b">>, <<"dv_ba", "dv_virama", "dv_ba">>>>,
     <<<<"m", "m">>, <<"dv_ma", "dv_virama", "dv_ma">>>>,
     <<<<"y", "y">>, <<"dv_ya", "dv_virama", "dv_ya">>>>,
     <<<<"r", "r">>, <<"dv_ra", "dv_virama", "dv_ra">>>>,
     <<<<"l", "l">>, <<"dv_la", "dv_virama", "dv_la">>>>,
     <<<<"s", "s">>, <<"dv_sa", "dv_virama", "dv_sa">>>>,
     <<<<"k">>, <<"dv_ka">>>>,
     <<<<"g">>, <<"dv_ga">>>>,
     <<<<"c">>, <<"dv_ca">>>>,
     <<<<"j">>, <<"dv_ja">>>>,
     <<<<"t">>, <<"dv_ta">>>>,
     <<<<"d">>, <<"dv_da">>>>,
     <<<<"n">>, <<"dv_na">>>>,
     <<<<"p">>, <<"dv_pa">>>>,
     <<<<"b">>, <<"dv_ba">>>>,
     <<<<"m">>, <<"dv_ma">>>>,
     <<<<"y">>, <<"dv_ya">>>>,
     <<<<"r">>, <<"dv_ra">>>>,
     <<<<"l">>, <<"dv_la">>>>,
     <<<<"w">>, <<"dv_va">>>>,
     <<<<"v">>, <<"dv_va">>>>,
     <<<<"s">>, <<"dv_sa">>>>,
     <<<<"h">>, <<"dv_ha">>>>,
     <<<<"q">>, <<"dv_ka">>>>,
     <<<<"x">>, <<"dv_cha">>>>,
     <<<<"z">>, <<"dv_ja">>>>,
     <<<<"f">>, <<"dv_pha">>>> >>

\* (roman_pattern, independent_form, matra_form), longest first
VOWELS ==
  << <<<<"a", "a", "i">>, <<"dv_aa", "dv_i">>, <<"dv_sign_aa", "dv_i">>>>,
     <<<<"a", "a", "u">>, <<"dv_aa", "dv_u">>, <<"dv_sign_aa", "dv_u">>>>,
     <<<<"a", "a", "e">>, <<"dv_aa", "dv_e">>, <<"dv_sign_aa", "dv_e">>>>,
     <<<<"a", "a", "o">>, <<"dv_aa", "dv_o">>, <<"dv_sign_aa", "dv_o">>>>,
     <<<<"a", "a">>, <<"dv_aa">>, <<"dv_sign_aa">>>>,
     <<<<"a", "i">>, <<"dv_ai">>, <<"dv_sign_ai">>>>,
     <<<<"a", "u">>, <<"dv_au">>, <<"dv_sign_au">>>>,
     <<<<"o", "u">>, <<"dv_au">>, <<"dv_sign_au">>>>,
     <<<<"e", "e">>, <<"dv_ii">>, <<"dv_sign_ii">>>>,
     <<<<"i", "i">>, <<"dv_ii">>, <<"dv_sign_ii">>>>,
     <<<<"o", "o">>, <<"dv_uu">>, <<"dv_sign_uu">>>>,
     <<<<"u", "u">>, <<"dv_uu">>, <<"dv_sign_uu">>>>,
     <<<<"r", "i">>, <<"dv_vocalic_r">>, <<"dv_sign_vocalic_r">>>>,
     <<<<"a">>, <<"dv_a">>, <<>>>>,
     <<<<"i">>, <<"dv_i">>, <<"dv_sign_i">>>>,
     <<<<"u">>, <<"dv_u">>, <<"dv_sign_u">>>>,
     <<<<"e">>, <<"dv_e">>, <<"dv_sign_e">>>>,
     <<<<"o">>, <<"dv_o">>, <<"dv_sign_o">>>> >>

PUNCTUATION ==
  ("." :> <<"dv_danda">>) @@
  ("," :> <<",">>) @@
  ("?" :> <<"?">>) @@
  ("!" :> <<"!">>) @@
  (";" :> <<";">>) @@
  (":" :> <<":">>) @@
  ("-" :> <<"-">>) @@
  ("(" :> <<"(">>) @@
  (")" :> <<")">>) @@
  ("[" :> <<"[">>) @@
  ("]" :> <<"]">>) @@
  ("\"" :> <<"\"">>) @@
  ("'" :> <<"'">>) @@
  ("U+2026" :> <<".", ".", ".">>)

-----------------------------------------------------------------------------
(* Postpositions and context rules (transliterator.py lines 167-210) *)

JOINING_SUFFIXES ==
  { <<"b", "a", "t", "a">>,
    <<"b", "h", "a", "n", "d", "a">>,
    <<"d", "e", "k", "h", "i">>,
    <<"h", "a", "r", "u">>,
    <<"h", "a", "r", "u", "k", "o">>,
    <<"h", "a", "r", "u", "l", "a", "i">>,
    <<"h", "a", "r", "u", "l", "e">>,
    <<"h", "a", "r", "u", "m", "a">>,
    <<"k", "a">>,
    <<"k", "o">>,
    <<"l", "a", "i">>,
    <<"l", "e">>,
    <<"m", "a">>,
    <<"s", "a", "n", "g", "a">>,
    <<"s", "a", "n", "g", "a", "i">> }

MA_AS_PRONOUN_AFTER ==
  { <<"a", "g", "a", "r">>,
    <<"a", "n", "i">>,
    <<"a", "t", "h", "a", "w", "a">>,
    <<"b", "h", "a", "n", "e">>,
    <<"c", "h", "h", "a">>,
    <<"c", "h", "h", "a", "n">>,
    <<"c", "h", "h", "u">>,
    <<"h", "o">>,
    <<"j", "a", "b">>,
    <<"k", "e">>,
    <<"k", "i">>,
    <<"r", "a">>,
    <<"t", "a", "r", "a">>,
    <<"y", "a", "d", "i">> }

NO_JOIN_WORDS ==
  { <<"a", "n", "i">>,
    <<"a", "t", "h", "a", "w", "a">>,
    <<"c", "h", "h", "a">>,
    <<"c", "h", "h", "a", "n">>,
    <<"c", "h", "h", "u">>,
    <<"h", "o">>,
    <<"k", "e">>,
    <<"k", "i">>,
    <<"r", "a">>,
    <<"t", "a", "r", "a">> }

COMPOUND_PAIRS ==
  { <<<<"k", "i", "n", "a">>, <<"b", "h", "a", "n", "e">>>>,
    <<<<"s", "a", "b", "a", "i">>, <<"b", "h", "a", "n", "d", "a">>>>,
    <<<<"k", "i", "n", "a", "k", "i">>, <<"b", "h", "a", "n", "e">>>> }

MA_PRONOUN_CONTEXT ==
  { <<",">>,
    <<"a", "n", "i">>,
    <<"b", "h", "a", "n", "e">>,
    <<"j", "a", "b">>,
    <<"k", "i">>,
    <<"k", "i", "n", "a", "b", "h", "a", "n", "e">>,
    <<"k", "i", "n", "a", "k", "i">>,
    <<"r", "a">>,
    <<"t", "a", "r", "a">> }
-----------------------------------------------------------------------------
(* String helpers.  Positions are 0-based as in the source: the character  *)
(* at source position p of s is s[p + 1].                                  *)

\* s[p:]
From(s, p) == SubSeq(s, p + 1, Len(s))

\* s[:p]
UpTo(s, p) == SubSeq(s, 1, p)

\* s.startswith(p)
StartsWith(s, p) == Len(p) <= Len(s) /\ SubSeq(s, 1, Len(p)) = p

\* s.endswith(p)
EndsWith(s, p) == Len(p) <= Len(s) /\ SubSeq(s, Len(s) - Len(p) + 1, Len(s)) = p

\* s.lower().endswith(p): str.lower() works character by character, so only
\* the end of s is lowered
LowerEndsWith(s, p) ==
    Len(p) <= Len(s) /\ Lower(SubSeq(s, Len(s) - Len(p) + 1, Len(s))) = p

RECURSIVE Concat(_)
\* ''.join(parts)
Concat(parts) ==
    IF parts = <<>> THEN <<>> ELSE Head(parts) \o Concat(Tail(parts))

Min(S) == CHOOSE m \in S : \A n \in S : m <= n

-----------------------------------------------------------------------------
(* Phoneme matching (transliterator.py lines 219-241) *)

\* The result of a failed match: (None, None, 0)
NoMatch == [pat |-> <<>>, dev |-> <<>>, indep |-> <<>>, matra |-> <<>>, len |-> 0]

\* The scan of the consonant table that keeps the last entry that matches
\* instead of returning at the first
match_consonant_lastHit(txt, p) ==
    LET remaining == Lower(From(txt, p))
        hits == {k \in 1..Len(CONSONANTS) : StartsWith(remaining, CONSONANTS[k][1])}
    IN  IF hits = {} THEN NoMatch
        ELSE LET e == CONSONANTS[CHOOSE m \in hits : \A n \in hits : n <= m]
             IN  [pat |-> e[1], dev |-> e[2], indep |-> <<>>, matra |-> <<>>,
                  len |-> Len(e[1])]

\* The first table entry whose pattern is a prefix of text[pos:].lower()
match_consonant(txt, p) ==
    LET remaining == Lower(From(txt, p))
        hits == {k \in 1..Len(CONSONANTS) : StartsWith(remaining, CONSONANTS[k][1])}
    IN  IF hits = {} THEN NoMatch
        ELSE LET e == CONSONANTS[Min(hits)]
             IN  [pat |-> e[1], dev |-> e[2], indep |-> <<>>, matra |-> <<>>,
                  len |-> Len(e[1])]

match_vowel(txt, p) ==
    LET remaining == Lower(From(txt, p))
        hits == {k \in 1..Len(VOWELS) : StartsWith(remaining, VOWELS[k][1])}
    IN  IF hits = {} THEN NoMatch
        ELSE LET e == VOWELS[Min(hits)]
             IN  [pat |-> e[1], dev |-> <<>>, indep |-> e[2], matra |-> e[3],
                  len |-> Len(e[1])]

is_vowel_char(c) == LowerChar(c) \in {"a", "e", "i", "o", "u"}

is_consonant_char(c) ==
    LowerChar(c) \in {"b","c","d","f","g","h","j","k","l","m","n","p","q","r",
                      "s","t","v","w","x","y","z"}

-----------------------------------------------------------------------------
(* Context-aware transliteration (transliterator.py lines 304-512) *)

\* Whether the 'n' at position p becomes chandrabindu.
should_nasalize(w, p) ==
    LET word_lower == Lower(w)
    IN  IF p >= Len(word_lower) \/ word_lower[p + 1] # "n" THEN FALSE
        ELSE IF p = 0 \/ word_lower[p] \notin {"a", "e", "i", "o", "u"} THEN FALSE
        ELSE IF p + 1 >= Len(word_lower) THEN FALSE
        ELSE IF word_lower[p + 2] \in {"n", "g", "y", "k", "h"} THEN FALSE
        ELSE is_consonant_char(word_lower[p + 2])

\* The postpositions before which a single 'a' is written long (line 454)
LongABefore ==
    { <<"m","a">>, <<"k","o">>, <<"k","a">>, <<"k","i">>, <<"l","a","i">>,
      <<"l","e">> }

\* The vowel mark with the test of line 467 written word_len < 2: the final
\* 'i' of a two-letter word is written long as well
VowelMark_longInParticles(w, next_pos, vow) ==
    LET word_len == Len(w)
        word_lower == Lower(w)
        after_a_pos == next_pos + vow.len
        remaining == IF after_a_pos < word_len THEN From(word_lower, after_a_pos)
                     ELSE <<>>
    IN  IF vow.pat = <<"a">>
        THEN IF remaining \in LongABefore THEN <<"dv_sign_aa">> ELSE <<>>
        ELSE IF vow.pat = <<"i">> /\ next_pos + vow.len >= word_len
        THEN IF word_len < 2 THEN <<"dv_sign_i">> ELSE <<"dv_sign_ii">>
        ELSE vow.matra

\* The vowel mark written after a consonant (lines 446-477)
VowelMark(w, next_pos, vow) ==
    LET word_len == Len(w)
        word_lower == Lower(w)
        after_a_pos == next_pos + vow.len
        remaining == IF after_a_pos < word_len THEN From(word_lower, after_a_pos)
                     ELSE <<>>
    IN  IF vow.pat = <<"a">>
        THEN IF remaining \in LongABefore THEN <<"dv_sign_aa">> ELSE <<>>
        ELSE IF vow.pat = <<"i">> /\ next_pos + vow.len >= word_len
        THEN IF word_len <= 2 THEN <<"dv_sign_i">> ELSE <<"dv_sign_ii">>
        ELSE vow.matra

\* What one iteration of the loop does: the branch taken, the consonant
\* and vowel patterns matched, the glyphs appended, the position moved to
Iteration(branch, cons, vow, emit, p) ==
    [branch |-> branch, cons |-> cons, vow |-> vow, emit |-> emit, pos |-> p]

\* One iteration of the while loop of transliterate_word_rules at position p
\* (lines 410-510).  The branch of lines 503-506 is written as in the source;
\* no word takes it, because 'n' always matches a consonant pattern.
RulesStep(w, p) ==
    LET char == w[p + 1]
        cons == match_consonant(w, p)
        next_pos == p + cons.len
    IN  IF IsDigit(char) \/ NonAscii(char) \/ char \in {"[", "]", "{", "}", "(", ")"}
        THEN Iteration("pass_through", <<>>, <<>>, <<char>>, p + 1)
        ELSE IF cons.pat # <<>>
        THEN IF cons.pat = <<"n">> /\ should_nasalize(w, p)
             THEN Iteration("nasalize", cons.pat, <<>>, <<CHANDRABINDU>>, p + 1)
             ELSE IF next_pos >= Len(w)
             THEN Iteration("final_consonant", cons.pat, <<>>, cons.dev, next_pos)
             ELSE LET vow == match_vowel(w, next_pos)
                  IN  IF vow.pat # <<>>
                      THEN Iteration("consonant_vowel", cons.pat, vow.pat,
                                     cons.dev \o VowelMark(w, next_pos, vow),
                                     next_pos + vow.len)
                      ELSE IF match_consonant(w, next_pos).pat # <<>>
                      THEN Iteration("conjunct", cons.pat, <<>>,
                                     cons.dev \o <<HALANT>>, next_pos)
                      ELSE Iteration("lone_consonant", cons.pat, <<>>, cons.dev, next_pos)
        ELSE LET vow == match_vowel(w, p)
             IN  IF vow.pat # <<>>
                 THEN Iteration("independent_vowel", <<>>, vow.pat, vow.indep, p + vow.len)
                 ELSE IF should_nasalize(w, p)
                 THEN Iteration("nasalize_unmatched", <<>>, <<>>, <<CHANDRABINDU>>, p + 1)
                 ELSE Iteration("unknown", <<>>, <<>>, <<char>>, p + 1)

RECURSIVE RulesFrom(_, _)
\* The output of the loop from position p to the end of the word
RulesFrom(w, p) ==
    IF p >= Len(w) THEN <<>>
    ELSE CHOOSE r \in { s.emit \o RulesFrom(w, s.pos) : s \in {RulesStep(w, p)} } : TRUE

\* Rule-based transliteration for words not in the dictionary
transliterate_word_rules(w) == IF w = <<>> THEN <<>> ELSE RulesFrom(w, 0)

-----------------------------------------------------------------------------
(* The exception dictionary (transliterator.py lines 157-160).  The import *)
(* of word_dict either succeeds or leaves WORD_DICT empty.  The loaded     *)
(* dictionary is represented by entries the repository's dictionary        *)
(* builder writes (extract_words.py, loanwords and common_fixes).          *)

EmptyDict == <<>>

RepoDict ==
  (<<"b", "u", "s">> :> <<"dv_ba", "dv_sa">>) @@
  (<<"p", "a", "n", "i">> :> <<"dv_pa", "dv_sign_aa", "dv_na", "dv_sign_ii">>) @@
  (<<"h", "u", "n">> :> <<"dv_ha", "dv_sign_u", "dv_candrabindu">>) @@
  (<<"b", "a", "r", "e", "m", "a">> :>
      <<"dv_ba", "dv_sign_aa", "dv_ra", "dv_sign_e", "dv_ma", "dv_sign_aa">>) @@
  (<<"k", "i", "n", "a", "b", "h", "a", "n", "e">> :>
      <<"dv_ka", "dv_sign_i", "dv_na", "dv_bha", "dv_na", "dv_sign_e">>)

InDict(w) == w \in DOMAIN WORD_DICT

-----------------------------------------------------------------------------
(* Main transliteration (transliterator.py lines 518-650) *)

\* The context dictionary passed to transliterate_word; a missing
\* 'is_sentence_start' key reads as False, a missing 'prev_word' as ''.
Context(start, prev) == [is_sentence_start |-> start, prev_word |-> prev]

RECURSIVE rstrip(_, _)
\* s.rstrip(chars)
rstrip(s, chars) ==
    IF s # <<>> /\ s[Len(s)] \in chars THEN rstrip(UpTo(s, Len(s) - 1), chars)
    ELSE s

MA == <<"m", "a">>
HUN == <<"h", "u", "n">>

\* Lines 535-550: whether 'ma' is rendered as the pronoun in this context
MaIsPronoun(ctx) ==
    LET prev_word == Lower(ctx.prev_word)
        prev_clean == rstrip(prev_word, {".", ",", "?", "!", ";", ":"})
    IN  \/ prev_word \in {<<",">>, <<";">>, <<"-">>, <<".", ".", ".">>}
        \/ ctx.is_sentence_start
        \/ prev_clean \in MA_PRONOUN_CONTEXT
        \/ EndsWith(prev_word, <<",">>)

\* Lines 569-572: whether 'hun' is rendered as "I am" in this context
HunIsFirstPerson(ctx) ==
    LET prev_word == Lower(ctx.prev_word)
    IN  \/ ctx.is_sentence_start
        \/ prev_word = MA
        \/ prev_word \in MA_PRONOUN_CONTEXT

\* Lines 556-561: the suffixes that end the word and leave a stem of 2+
SplitSuffixes(w) ==
    {s \in JOINING_SUFFIXES : LowerEndsWith(w, s) /\ Len(w) - Len(s) >= 2}

\* The first of them in the order sorted by length, longest first
SplitSuffix(w) ==
    CHOOSE s \in SplitSuffixes(w) : \A t \in SplitSuffixes(w) : Len(t) <= Len(s)

\* the particle table built inside transliterate_word
common_particles ==
  (<<"m", "a">> :> <<"dv_ma", "dv_sign_aa">>) @@
  (<<"k", "o">> :> <<"dv_ka", "dv_sign_o">>) @@
  (<<"l", "e">> :> <<"dv_la", "dv_sign_e">>) @@
  (<<"l", "a", "i">> :> <<"dv_la", "dv_sign_aa", "dv_ii">>) @@
  (<<"b", "a", "t", "a">> :> <<"dv_ba", "dv_sign_aa", "dv_tta">>) @@
  (<<"d", "e", "k", "h", "i">> :> <<"dv_da", "dv_sign_e", "dv_kha", "dv_sign_i">>) @@
  (<<"s", "a", "n", "g", "a">> :> <<"dv_sa", "dv_candrabindu", "dv_ga">>) @@
  (<<"c", "h", "h", "a">> :> <<"dv_cha">>) @@
  (<<"c", "h", "h", "u">> :> <<"dv_cha", "dv_sign_u">>) @@
  (<<"c", "h", "h", "a", "n">> :> <<"dv_cha", "dv_na", "dv_virama">>) @@
  (<<"h", "o">> :> <<"dv_ha", "dv_sign_o">>) @@
  (<<"h", "u", "n">> :> <<"dv_ha", "dv_sign_u", "dv_na", "dv_virama">>) @@
  (<<"t", "a">> :> <<"dv_ta">>) @@
  (<<"n", "a", "i">> :> <<"dv_na", "dv_sign_ai">>) @@
  (<<"n", "i">> :> <<"dv_na", "dv_sign_i">>) @@
  (<<"p", "o">> :> <<"dv_pa", "dv_sign_o">>) @@
  (<<"r", "a">> :> <<"dv_ra">>) @@
  (<<"k", "i">> :> <<"dv_ka", "dv_sign_i">>) @@
  (<<"k", "e">> :> <<"dv_ka", "dv_sign_e">>) @@
  (<<"y", "o">> :> <<"dv_ya", "dv_sign_o">>) @@
  (<<"t", "y", "o">> :> <<"dv_ta", "dv_virama", "dv_ya", "dv_sign_o">>) @@
  (<<"u">> :> <<"dv_uu">>) @@
  (<<"n", "e", "p", "a", "l">> :> <<"dv_na", "dv_sign_e", "dv_pa", "dv_sign_aa", "dv_la">>) @@
  (<<"n", "e", "p", "a", "l", "i">> :> <<"dv_na", "dv_sign_e", "dv_pa", "dv_sign_aa", "dv_la", "dv_sign_ii">>) @@
  (<<"s", "a", "b", "a", "i">> :> <<"dv_sa", "dv_ba", "dv_sign_ai">>) @@
  (<<"d", "h", "e", "r", "a", "i">> :> <<"dv_dha", "dv_sign_e", "dv_ra", "dv_sign_ai">>)

\* The glyphs that end the rendering of a consonant pattern
ConsonantGlyphs == {CONSONANTS[k][2][Len(CONSONANTS[k][2])] : k \in 1..Len(CONSONANTS)}

\* Stem and suffix with the stacking marker put between them when the stem
\* ends in a consonant glyph with no vowel mark
StemPlusSuffix_stacked(stem_trans, suffix_trans) ==
    IF stem_trans # <<>> /\ stem_trans[Len(stem_trans)] \in ConsonantGlyphs
    THEN stem_trans \o <<HALANT>> \o suffix_trans
    ELSE stem_trans \o suffix_trans

\* Line 565: stem_trans + suffix_trans
StemPlusSuffix(stem_trans, suffix_trans) == stem_trans \o suffix_trans

\* Whether transliterate_word reaches the recursive calls of lines 563-564
\* for w: the word is not returned before (lines 529-549), it is longer than
\* 3, no dictionary key, and ends in a suffix after a stem of 2 or more
Splits(w, ctx) ==
    /\ w # <<>>
    /\ ~(Lower(w) = MA /\ MaIsPronoun(ctx))
    /\ Len(w) > 3
    /\ ~InDict(Lower(w))
    /\ SplitSuffixes(w) # {}

RECURSIVE transliterate_word(_, _)
\* Transliterate a single word in a context
transliterate_word(w, ctx) ==
    LET word_lower == Lower(w)
    IN  IF w = <<>> THEN <<>>
        ELSE IF word_lower = MA /\ MaIsPronoun(ctx) THEN <<"dv_ma">>
        ELSE IF Splits(w, ctx)
        THEN LET suffix == SplitSuffix(w)
                 stem == UpTo(w, Len(w) - Len(suffix))
             IN  StemPlusSuffix(transliterate_word(stem, ctx),
                                transliterate_word(suffix, ctx))
        ELSE IF word_lower = HUN /\ HunIsFirstPerson(ctx)
        THEN <<"dv_ha", "dv_sign_u", "dv_candrabindu">>
        ELSE IF word_lower \in DOMAIN common_particles
        THEN common_particles[word_lower]
        ELSE IF InDict(word_lower) THEN WORD_DICT[word_lower]
        ELSE transliterate_word_rules(w)

-----------------------------------------------------------------------------
(* The transliterator class (transliterator.py lines 656-808) *)

Token(type, val) == [type |-> type, val |-> val]

\* Lines 781-783, 786-788: the pending word, if any, becomes a token
Flush(current) == IF current = <<>> THEN <<>> ELSE <<Token("word", current)>>

RECURSIVE TokenizeFrom(_, _, _, _)
\* The loop of _tokenize from character k (1-based) on, with the tokens and
\* the pending word built so far
TokenizeFrom(txt, k, tokens, current) ==
    IF k > Len(txt) THEN tokens \o Flush(current)
    ELSE LET char == txt[k]
         IN  IF IsSpace(char)
             THEN TokenizeFrom(txt, k + 1,
                               tokens \o Flush(current) \o <<Token("space", <<char>>)>>, <<>>)
             ELSE IF char \in DOMAIN PUNCTUATION
             THEN TokenizeFrom(txt, k + 1,
                               tokens \o Flush(current) \o <<Token("punct", <<char>>)>>, <<>>)
             ELSE TokenizeFrom(txt, k + 1, tokens, Append(current, char))

\* Tokenize text into (type, value) pairs
tokenize(txt) == TokenizeFrom(txt, 1, <<>>, <<>>)

\* _get_cached with a cache that holds one entry and is emptied before
\* another is stored
get_cached_evicting(c, w, ctx) ==
    LET word_lower == Lower(w)
    IN  IF word_lower # MA /\ word_lower \in DOMAIN c
        THEN [val |-> c[word_lower], cache |-> c]
        ELSE CHOOSE r \in
                 { [val |-> v,
                    cache |-> IF word_lower = MA THEN c ELSE (word_lower :> v)] :
                   v \in {transliterate_word(w, ctx)} } : TRUE

\* _get_cached on cache c: the rendering returned and the cache afterwards
get_cached(c, w, ctx) ==
    LET word_lower == Lower(w)
    IN  IF word_lower # MA /\ word_lower \in DOMAIN c
        THEN [val |-> c[word_lower], cache |-> c]
        ELSE CHOOSE r \in
                 { [val |-> v,
                    cache |-> IF word_lower = MA THEN c ELSE c @@ (word_lower :> v)] :
                   v \in {transliterate_word(w, ctx)} } : TRUE

\* The joining suffix is always kept joinable: 'ma' is never taken as the
\* pronoun by the lookahead
IsJoiningSuffix_always(prev_lower, next_lower, ctx) == TRUE

\* Lines 710-720: whether the joining suffix next_lower is kept joinable
\* after prev_lower ('ma' is not, where it is the pronoun)
IsJoiningSuffix(prev_lower, next_lower, ctx) ==
    IF next_lower = MA
    THEN ~ \/ EndsWith(ctx.prev_word, <<",">>)
           \/ \E m \in MA_AS_PRONOUN_AFTER : EndsWith(prev_lower, m)
           \/ EndsWith(prev_lower, <<",">>)
    ELSE TRUE

\* Lines 697-734: whether the word next_word is joined to the words so far
Joins(words_to_join, next_word, ctx) ==
    LET next_lower == Lower(next_word)
        prev_lower == Lower(words_to_join[Len(words_to_join)])
    IN  \/ <<prev_lower, next_lower>> \in COMPOUND_PAIRS
        \/ /\ next_lower \in JOINING_SUFFIXES
           /\ IsJoiningSuffix(prev_lower, next_lower, ctx)
           /\ prev_lower \notin NO_JOIN_WORDS

RECURSIVE JoinScan(_, _, _, _)
\* The lookahead with the test of line 691 left out: the token between two
\* words may be a punctuation token as well
JoinScan_anySeparator(tokens, j, words_to_join, ctx) ==
    IF /\ j < Len(tokens)
       /\ tokens[j + 1].type # "word"
       /\ j + 1 < Len(tokens)
       /\ tokens[j + 2].type = "word"
       /\ Joins(words_to_join, tokens[j + 2].val, ctx)
    THEN JoinScan(tokens, j + 2, Append(words_to_join, tokens[j + 2].val), ctx)
    ELSE [words |-> words_to_join, j |-> j]

\* The lookahead loop (lines 689-735) from token index j (0-based): the
\* words to join and the index of the first token not consumed
JoinScan(tokens, j, words_to_join, ctx) ==
    IF /\ j < Len(tokens)
       /\ tokens[j + 1].type = "space"
       /\ j + 1 < Len(tokens)
       /\ tokens[j + 2].type = "word"
       /\ Joins(words_to_join, tokens[j + 2].val, ctx)
    THEN JoinScan(tokens, j + 2, Append(words_to_join, tokens[j + 2].val), ctx)
    ELSE [words |-> words_to_join, j |-> j]

\* Line 749 written ctx = context: every part is rendered in the context of
\* the unit, the sentence-start flag included
RenderPart_keepContext(acc, words_to_join, k, context) ==
    CHOOSE r \in
        { [val |-> acc.val \o g.val, parts |-> Append(acc.parts, g.val),
           cache |-> g.cache] :
          g \in {get_cached(acc.cache, words_to_join[k + 1], context)} } : TRUE

\* Lines 749-751: part k (0-based) rendered through the cache and appended to
\* the parts rendered so far; the first part keeps the context of the unit
RenderPart(acc, words_to_join, k, context) ==
    LET ctx == IF k = 0 THEN context ELSE Context(FALSE, words_to_join[k])
    IN  CHOOSE r \in
            { [val |-> acc.val \o g.val, parts |-> Append(acc.parts, g.val),
               cache |-> g.cache] :
              g \in {get_cached(acc.cache, words_to_join[k + 1], ctx)} } : TRUE

RECURSIVE RenderParts(_, _, _, _)
\* Lines 747-751: the parts from index k (0-based) on, rendered through the
\* cache and joined without a space
RenderParts(acc, words_to_join, k, context) ==
    IF k >= Len(words_to_join) THEN acc
    ELSE CHOOSE r \in
             { RenderParts(a, words_to_join, k + 1, context) :
               a \in {RenderPart(acc, words_to_join, k, context)} } : TRUE

\* Lines 738-751: a render unit through the cache c.  A single word is a
\* list of one part (line 738: transliterated = self._get_cached(tval, context))
RenderUnit(c, words_to_join, context) ==
    LET combined_lower == Concat([k \in 1..Len(words_to_join) |-> Lower(words_to_join[k])])
    IN  IF Len(words_to_join) > 1 /\ InDict(combined_lower)
        THEN [val |-> WORD_DICT[combined_lower], parts |-> <<>>, cache |-> c]
        ELSE RenderParts([val |-> <<>>, parts |-> <<>>, cache |-> c],
                         words_to_join, 0, context)

\* The state of the main loop before its first iteration (lines 671-674)
LoopStart(c) ==
    [i |-> 0, result |-> <<>>, is_sentence_start |-> TRUE, prev_word |-> <<>>,
     cache |-> c, units |-> <<>>]

\* Lines 738-755: the unit found by the lookahead is rendered and appended,
\* and the loop moves behind it
WordRender(st, context, scan) ==
    CHOOSE next \in
        { [i |-> scan.j,
           result |-> st.result \o r.val,
           is_sentence_start |-> FALSE,
           prev_word |-> scan.words[Len(scan.words)],
           cache |-> r.cache,
           units |-> Append(st.units, [words |-> scan.words, val |-> r.val,
                                       parts |-> r.parts, at |-> Len(st.result),
                                       i |-> st.i, j |-> scan.j, context |-> context])] :
          r \in {RenderUnit(st.cache, scan.words, context)} } : TRUE

\* Lines 679-755: a word token
WordStep(tokens, st) ==
    LET context == Context(st.is_sentence_start, st.prev_word)
    IN  CHOOSE next \in
            { WordRender(st, context, scan) :
              scan \in {JoinScan(tokens, st.i + 1, <<tokens[st.i + 1].val>>, context)} } :
            TRUE

\* A space token written as one blank, whatever whitespace it was
SpaceStep_normalising(tokens, st) ==
    [st EXCEPT !.i = st.i + 1, !.result = st.result \o <<" ">>]

\* Lines 757-759: a space token
SpaceStep(tokens, st) ==
    [st EXCEPT !.i = st.i + 1, !.result = st.result \o tokens[st.i + 1].val]

\* PUNCTUATION.get(tval, tval)
PunctuationGet(tval) ==
    IF tval[1] \in DOMAIN PUNCTUATION THEN PUNCTUATION[tval[1]] ELSE tval

\* A punctuation token with line 763 left out: every separator sets the
\* sentence-start flag
PunctStep_everySeparator(tokens, st) ==
    LET tval == tokens[st.i + 1].val
    IN  [st EXCEPT !.i = st.i + 1,
                   !.result = st.result \o PunctuationGet(tval),
                   !.is_sentence_start = TRUE,
                   !.prev_word = tval]

\* Lines 761-768: a punctuation token
PunctStep(tokens, st) ==
    LET tval == tokens[st.i + 1].val
    IN  [st EXCEPT !.i = st.i + 1,
                   !.result = st.result \o PunctuationGet(tval),
                   !.is_sentence_start =
                       IF tval[1] \in {".", "?", "!", "|"} THEN TRUE
                       ELSE st.is_sentence_start,
                   !.prev_word = tval]

\* One iteration of the main loop of transliterate (lines 676-770)
MainStep(tokens, st) ==
    LET ttype == tokens[st.i + 1].type
    IN  IF ttype = "word" THEN WordStep(tokens, st)
        ELSE IF ttype = "space" THEN SpaceStep(tokens, st)
        ELSE IF ttype = "punct" THEN PunctStep(tokens, st)
        ELSE [st EXCEPT !.i = st.i + 1]

RECURSIVE MainFrom(_, _)
\* The main loop from state st to its end
MainFrom(tokens, st) ==
    IF st.i >= Len(tokens) THEN st
    ELSE CHOOSE r \in { MainFrom(tokens, next) : next \in {MainStep(tokens, st)} } : TRUE

\* NepaliTransliterator.transliterate on an engine whose cache is c: the
\* string returned, the cache afterwards and the render units
transliterate(txt, c) ==
    IF txt = <<>> THEN [out |-> <<>>, cache |-> c, units |-> <<>>]
    ELSE CHOOSE r \in
             { [out |-> st.result, cache |-> st.cache, units |-> st.units] :
               st \in {MainFrom(tokenize(txt), LoopStart(c))} } : TRUE

-----------------------------------------------------------------------------
(* Inputs *)

\* Longest string drawn letter by letter from an alphabet
MaxLen == 3

\* Most calls in a session
MaxCalls == 3

w_ma == <<"m", "a">>
w_Ma == <<"M", "a">>
w_MA == <<"M", "A">>
w_hun == <<"h", "u", "n">>
w_u == <<"u">>
w_ghar == <<"g", "h", "a", "r">>
w_ko == <<"k", "o">>
w_lai == <<"l", "a", "i">>
w_haru == <<"h", "a", "r", "u">>
w_jab == <<"j", "a", "b">>
w_ra == <<"r", "a">>
w_kura == <<"k", "u", "r", "a">>
w_chha == <<"c", "h", "h", "a">>
w_janchha == <<"j", "a", "n", "c", "h", "h", "a">>
w_ho == <<"h", "o">>
w_kina == <<"k", "i", "n", "a">>
w_bhane == <<"b", "h", "a", "n", "e">>
w_bare == <<"b", "a", "r", "e">>
w_gharma == <<"g", "h", "a", "r", "m", "a">>
w_Ram == <<"R", "a", "m">>
w_jaane == <<"j", "a", "a", "n", "e">>
w_chhu == <<"c", "h", "h", "u">>
w_k == <<"k">>
w_Kelvin == <<"U+212A">>

SP == <<" ">>
TAB == <<"\t">>
NL == <<"\n">>

\* All strings over alphabet of length 1..n
Strings(alphabet, n) == UNION {[1..k -> alphabet] : k \in 1..n}

DigitStrings == Strings({"1", "2", "3"}, MaxLen)

\* Roman letters mixed with characters that have no mapping: OM and '#'
MixedStrings == Strings({"k", "a", "#", "dv_om"}, MaxLen)

FirstWords ==
    { w_ghar, w_jab, w_ra, w_chha, w_janchha, w_chhu, w_ho, w_kina, w_bare,
      w_Ma, w_hun, w_u }

SecondWords == { w_ma, w_MA, w_ko, w_lai, w_hun, w_bhane, w_chha, w_ghar }

Separators ==
    { SP, TAB, NL, SP \o SP, <<".">>, <<".", " ">>, <<",", " ">>, <<":", " ">> }

PairTexts == {a \o s \o b : a \in FirstWords, s \in Separators, b \in SecondWords}

ChainWords == { w_ghar, w_haru, w_ma, w_ko }

ChainTexts == {a \o SP \o b \o SP \o c : a \in ChainWords, b \in ChainWords, c \in ChainWords}

\* "Ram ghar ma." and "Ma ghar jaane chhu"
RamGharMa == w_Ram \o SP \o w_ghar \o SP \o w_ma \o <<".">>
MaGharJaaneChhu == w_Ma \o SP \o w_ghar \o SP \o w_jaane \o SP \o w_chhu

SingleWords == FirstWords \union SecondWords \union DOMAIN RepoDict
                   \union {w_gharma, w_k, w_Kelvin}

EdgeTexts ==
    { <<>>, SP, SP \o w_ma, w_ma \o SP, <<".">> \o w_ma, <<"{">> \o w_k \o <<"}">>,
      <<"U+2026">>, RamGharMa, MaGharJaaneChhu,
      w_kura \o SP \o w_ma, w_ghar \o <<"?", " ">> \o w_ma,
      w_ghar \o <<"|", " ">> \o w_ma,
      w_k \o w_Kelvin, w_Kelvin \o <<"a">>,
      <<SmallEAcute>> \o SP \o <<CapitalEAcute>>,
      <<CapitalEAcute>> \o SP \o <<SmallEAcute>>,
      <<"p", "a">> \o SP \o <<"n", "i">>, <<"b", "u">> \o SP \o <<"s">>,
      w_k \o <<"'">> \o w_k }

\* Every pattern of the vowel table as a text of its own
VowelTexts == {VOWELS[k][1] : k \in 1..Len(VOWELS)}

\* What comes before a word: nothing, a word, the end of a sentence, a comma
Positions == { <<>>, w_u \o SP, w_u \o <<".", " ">>, w_u \o <<",", " ">> }

\* Words of two or more characters outside NO_JOIN_WORDS
Stems == { w_ghar, w_kura, w_hun }

\* Words of JOINING_SUFFIXES typed after a stem
Postpositions == { w_ma, w_ko, w_lai, w_haru }

\* A stem with a postposition typed onto it, at each position
AttachedTexts == {pre \o s \o p : pre \in Positions, s \in Stems, p \in Postpositions}

Inputs ==
    DigitStrings \union MixedStrings \union SingleWords \union PairTexts
        \union ChainTexts \union EdgeTexts \union VowelTexts \union AttachedTexts

\* Earlier calls that leave something in the cache
WarmTexts == { w_u \o SP \o w_hun, w_Kelvin, w_u \o SP \o w_gharma }

\* The texts of a session
SessionTexts ==
    { w_hun, w_u \o SP \o w_hun, w_hun \o SP \o w_u, w_ma, w_ghar \o SP \o w_ma,
      w_gharma, w_u \o SP \o w_gharma, w_k, w_Kelvin }

-----------------------------------------------------------------------------
(* The module API (transliterator.py lines 814-824) as a state machine *)

\* No run of transliterate_word_rules is observed
NoStep == Iteration("none", <<>>, <<>>, <<>>, 0)

NoRules == pos = 0 /\ result = <<>> /\ step = NoStep

\* No thread has called, no engine is built yet
NoThreads == threads = <<>> /\ engines = <<>>

\* No batch call has been made
NoBatch == texts = <<>> /\ results = <<>>

\* The state after import: the dictionary loaded or not, no engine yet
Start(p) ==
    /\ WORD_DICT \in {EmptyDict, RepoDict}
    /\ instance = "None"
    /\ cache = <<>>
    /\ text = <<>>
    /\ out = <<>>
    /\ freshOut = <<>>
    /\ units = <<>>
    /\ history = <<>>
    /\ word = <<>>
    /\ stack = <<>>
    /\ ret = <<>>
    /\ NoRules
    /\ NoThreads
    /\ NoBatch
    /\ pc = p

\* transliterate(t) of the module: get_transliterator builds the shared
\* engine on first use, and the engine transliterates t through its cache
Transliterate(t) ==
    \E r \in {transliterate(t, cache)} :
        /\ instance' = "engine"
        /\ cache' = r.cache
        /\ text' = t
        /\ out' = r.out
        /\ units' = r.units
        /\ freshOut' = transliterate(t, <<>>).out
        /\ history' = Append(history, [text |-> t, out |-> r.out])
        /\ UNCHANGED <<WORD_DICT, word, stack, ret,
                   rulesVars, threadVars, batchVars>>

\* The attributes of a NepaliTransliterator object: what __init__ sets and
\* what the class defines (lines 656-808)
Attributes == {"cache", "transliterate", "_tokenize", "_get_cached"}

w_ka == <<"k", "a">>
w_kha == <<"k", "h", "a">>
w_ga == <<"g", "a">>

\* The lists of texts given to a batch call: up to MaxLen texts
BatchInputs == UNION {[1..n -> {w_ka, w_kha, w_ga}] : n \in 1..MaxLen}

\* One call, after at most one earlier call
Init == Start("fresh")

Warm == /\ pc = "fresh"
        /\ \E t \in WarmTexts : Transliterate(t)
        /\ pc' = "warm"

Call == /\ pc \in {"fresh", "warm"}
        /\ \E t \in Inputs : Transliterate(t)
        /\ pc' = "called"

\* engine.transliterate_batch(ts): the attribute is looked up on the object
\* and its class, which do not have it, and the lookup raises
TransliterateBatch ==
    /\ pc \in {"fresh", "warm"}
    /\ "transliterate_batch" \notin Attributes
    /\ \E ts \in BatchInputs : texts' = ts
    /\ pc' = "AttributeError"
    /\ UNCHANGED <<WORD_DICT, instance, cache, text, out, freshOut, units, history,
                   word, stack, ret, rulesVars, threadVars, results>>

Next == Warm \/ Call \/ TransliterateBatch

Spec == Init /\ [][Next]_vars

\* A session of up to MaxCalls calls
InitSession == Start("session")

SessionCall ==
    /\ pc = "session"
    /\ Len(history) < MaxCalls
    /\ \E t \in SessionTexts : Transliterate(t)
    /\ pc' = pc

NextSession == SessionCall

SpecSession == InitSession /\ [][NextSession]_vars

-----------------------------------------------------------------------------
(* The calls of transliterate_word, one step per call and return.  The     *)
(* text is one word w, so transliterate reaches transliterate_word(w,      *)
(* context) through _get_cached (line 739) with the context of the         *)
(* sentence start, and each call taking the branch of lines 554-565 calls  *)
(* itself on the stem (line 563) and then on the suffix (line 564).        *)

\* The limit of CPython on nested calls (sys.getrecursionlimit() is 1000
\* unless the application changes it, and this one does not).  Only the
\* nested calls of transliterate_word are counted against it here, not its
\* callers' frames nor its callees', so the interpreter raises no later
\* than this machine does.
RecursionLimit == 1000

\* The word 'gh' followed by n times the suffix 'ko'
Agglutinated(n) ==
    [k \in 1..(2 + 2 * n) |->
        IF k = 1 THEN "g" ELSE IF k = 2 THEN "h" ELSE IF k % 2 = 1 THEN "k" ELSE "o"]

\* 'gharharulai': the suffix 'harulai' is split again
w_gharharulai == <<"g", "h", "a", "r", "h", "a", "r", "u", "l", "a", "i">>

\* The words transliterated step by step
SplitTexts ==
    { w_ghar, w_gharma, w_gharharulai, w_hun, w_ma, w_lai, w_Kelvin, w_haru,
      w_ghar \o w_ko, w_bare \o w_ma, w_jaane, w_janchha }
        \union {Agglutinated(n) : n \in {1, 2, 3, RecursionLimit}}

\* The context of the only word of a text (lines 673-674, 680-683)
SentenceStartContext == Context(TRUE, <<>>)

InitSplit ==
    /\ WORD_DICT \in {EmptyDict, RepoDict}
    /\ instance = "engine"
    /\ cache = <<>>
    /\ text \in SplitTexts
    /\ out = <<>>
    /\ freshOut = <<>>
    /\ units = <<>>
    /\ history = <<>>
    /\ word = text
    /\ stack = <<>>
    /\ ret = <<>>
    /\ NoRules
    /\ NoThreads
    /\ NoBatch
    /\ pc = "split_call"

\* Line 563: the call on the stem; the caller waits with its suffix
SplitDescend ==
    /\ pc = "split_call"
    /\ Splits(word, SentenceStartContext)
    /\ Len(stack) + 1 < RecursionLimit
    /\ stack' = Append(stack, [suffix |-> SplitSuffix(word), stem_trans |-> <<>>,
                               waits_for |-> "stem"])
    /\ word' = UpTo(word, Len(word) - Len(SplitSuffix(word)))
    /\ UNCHANGED <<WORD_DICT, instance, cache, text, out, freshOut, units, history,
                   ret, pc,
                   rulesVars, threadVars, batchVars>>

\* Line 563 with the limit on nested calls reached: RecursionError
SplitOverflow ==
    /\ pc = "split_call"
    /\ Splits(word, SentenceStartContext)
    /\ Len(stack) + 1 >= RecursionLimit
    /\ pc' = "RecursionError"
    /\ UNCHANGED <<WORD_DICT, instance, cache, text, out, freshOut, units, history,
                   word, stack, ret,
                   rulesVars, threadVars, batchVars>>

\* A call that returns without calling itself (lines 529-549, 568-613)
SplitLeaf ==
    /\ pc = "split_call"
    /\ ~Splits(word, SentenceStartContext)
    /\ ret' = transliterate_word(word, SentenceStartContext)
    /\ pc' = "split_return"
    /\ UNCHANGED <<WORD_DICT, instance, cache, text, out, freshOut, units, history,
                   word, stack,
                   rulesVars, threadVars, batchVars>>

\* Lines 563-564: the stem is rendered, the suffix is next
SplitStemReturned ==
    /\ pc = "split_return"
    /\ stack # <<>>
    /\ stack[Len(stack)].waits_for = "stem"
    /\ stack' = [stack EXCEPT ![Len(stack)] =
                    [@ EXCEPT !.stem_trans = ret, !.waits_for = "suffix"]]
    /\ word' = stack[Len(stack)].suffix
    /\ pc' = "split_call"
    /\ UNCHANGED <<WORD_DICT, instance, cache, text, out, freshOut, units, history,
                   ret,
                   rulesVars, threadVars, batchVars>>

\* Lines 564-565: the suffix is rendered, the call returns stem + suffix
SplitSuffixReturned ==
    /\ pc = "split_return"
    /\ stack # <<>>
    /\ stack[Len(stack)].waits_for = "suffix"
    /\ ret' = StemPlusSuffix(stack[Len(stack)].stem_trans, ret)
    /\ stack' = SubSeq(stack, 1, Len(stack) - 1)
    /\ UNCHANGED <<WORD_DICT, instance, cache, text, out, freshOut, units, history,
                   word, pc,
                   rulesVars, threadVars, batchVars>>

\* Lines 802-808, 739, 772: the outermost call has returned; _get_cached
\* stores the rendering unless the word is 'ma', and transliterate returns it
SplitDone ==
    /\ pc = "split_return"
    /\ stack = <<>>
    /\ out' = ret
    /\ cache' = IF Lower(text) = MA THEN cache ELSE cache @@ (Lower(text) :> ret)
    /\ pc' = "split_done"
    /\ UNCHANGED <<WORD_DICT, instance, text, freshOut, units, history, word, stack,
                   ret,
                   rulesVars, threadVars, batchVars>>

NextSplit ==
    \/ SplitDescend
    \/ SplitOverflow
    \/ SplitLeaf
    \/ SplitStemReturned
    \/ SplitSuffixReturned
    \/ SplitDone

SpecSplit == InitSplit /\ [][NextSplit]_vars

-----------------------------------------------------------------------------
(* Threads calling the module's transliterate at the same time.  A thread  *)
(* can be preempted between any two statements, so each step below is one  *)
(* access to the shared state: the test and the assignment of _instance    *)
(* (lines 818-820), and in _get_cached the membership test (line 806), the *)
(* store (line 807) and the load (line 808) on the cache of the engine.    *)
(* What a thread does between two such accesses is local to it.            *)

Threads == {1, 2}

\* The NepaliTransliterator objects, in the order they are built
EngineName(n) == IF n = 1 THEN "engine1" ELSE "engine2"

\* The texts the threads transliterate: "hun u hun", "u hun", "bare ma."
ThreadTexts ==
    { w_hun \o SP \o w_u \o SP \o w_hun, w_u \o SP \o w_hun,
      w_bare \o SP \o w_ma \o <<".">> }

\* The locals of a thread that enters transliterate(txt)
NewThread(txt) ==
    [pc |-> "get_transliterator", text |-> txt, engine |-> "None",
     st |-> LoopStart(<<>>), context |-> Context(TRUE, <<>>),
     words_to_join |-> <<>>, j |-> 0, k |-> 0, parts |-> <<>>]

InitThreads ==
    /\ WORD_DICT \in {EmptyDict, RepoDict}
    /\ instance = "None"
    /\ cache = <<>>
    /\ text = <<>>
    /\ out = <<>>
    /\ freshOut = <<>>
    /\ units = <<>>
    /\ history = <<>>
    /\ word = <<>>
    /\ stack = <<>>
    /\ ret = <<>>
    /\ NoRules
    /\ threads \in [Threads -> {NewThread(txt) : txt \in ThreadTexts}]
    /\ engines = <<>>
    /\ NoBatch
    /\ pc = "threads"

\* What the steps of the threads leave alone
ThreadFrame ==
    UNCHANGED <<WORD_DICT, cache, text, out, freshOut, units, history, word, stack,
                ret, rulesVars, batchVars, pc>>

\* The word _get_cached is called with, lower-cased, and its context
\* (lines 749, 800)
PartLower(th) == Lower(th.words_to_join[th.k + 1])
PartContext(th) ==
    IF th.k = 0 THEN th.context ELSE Context(FALSE, th.words_to_join[th.k])

\* Line 818: if _instance is None
TestInstance ==
    \E t \in Threads :
        /\ threads[t].pc = "get_transliterator"
        /\ threads' = [threads EXCEPT ![t].pc =
                           IF instance = "None" THEN "construct" ELSE "return_instance"]
        /\ UNCHANGED <<instance, engines>>
        /\ ThreadFrame

\* Line 819: _instance = NepaliTransliterator(), with an empty cache
Construct ==
    \E t \in Threads :
        /\ threads[t].pc = "construct"
        /\ \E name \in {EngineName(Cardinality(DOMAIN engines) + 1)} :
               /\ engines' = engines @@ (name :> <<>>)
               /\ instance' = name
        /\ threads' = [threads EXCEPT ![t].pc = "return_instance"]
        /\ ThreadFrame

\* Lines 820, 824, 664-674: return _instance, and transliterate begins on it
ReturnInstance ==
    \E t \in Threads :
        /\ threads[t].pc = "return_instance"
        /\ threads' = [threads EXCEPT ![t].engine = instance, ![t].pc = "loop"]
        /\ UNCHANGED <<instance, engines>>
        /\ ThreadFrame

\* Lines 757-768: a space or punctuation token
SeparatorToken ==
    \E t \in Threads :
        LET th == threads[t]
            tokens == tokenize(th.text)
        IN  /\ th.pc = "loop"
            /\ th.st.i < Len(tokens)
            /\ tokens[th.st.i + 1].type # "word"
            /\ threads' = [threads EXCEPT ![t].st = MainStep(tokens, th.st)]
            /\ UNCHANGED <<instance, engines>>
            /\ ThreadFrame

\* The unit the lookahead finds at the word token the loop is at
ScanAt(th) ==
    JoinScan(tokenize(th.text), th.st.i + 1,
             <<tokenize(th.text)[th.st.i + 1].val>>,
             Context(th.st.is_sentence_start, th.st.prev_word))

\* ''.join(w.lower() for w in words_to_join)
CombinedLower(words_to_join) ==
    Concat([n \in 1..Len(words_to_join) |-> Lower(words_to_join[n])])

\* Lines 753-755: the unit is appended and the loop moves behind it
AfterUnit(st, rendering, words_to_join, j) ==
    [st EXCEPT !.i = j, !.result = st.result \o rendering,
               !.is_sentence_start = FALSE,
               !.prev_word = words_to_join[Len(words_to_join)]]

\* Lines 679-735, 742-744: a word token whose unit the dictionary gives whole
DictionaryUnit ==
    \E t \in Threads :
        LET th == threads[t]
        IN  /\ th.pc = "loop"
            /\ th.st.i < Len(tokenize(th.text))
            /\ tokenize(th.text)[th.st.i + 1].type = "word"
            /\ \E scan \in {ScanAt(th)} :
                   /\ Len(scan.words) > 1
                   /\ InDict(CombinedLower(scan.words))
                   /\ threads' = [threads EXCEPT ![t].st =
                          AfterUnit(th.st, WORD_DICT[CombinedLower(scan.words)],
                                    scan.words, scan.j)]
            /\ UNCHANGED <<instance, engines>>
            /\ ThreadFrame

\* Lines 679-740, 745-748: a word token whose unit is rendered part by part
StartParts ==
    \E t \in Threads :
        LET th == threads[t]
        IN  /\ th.pc = "loop"
            /\ th.st.i < Len(tokenize(th.text))
            /\ tokenize(th.text)[th.st.i + 1].type = "word"
            /\ \E scan \in {ScanAt(th)} :
                   /\ ~(Len(scan.words) > 1 /\ InDict(CombinedLower(scan.words)))
                   /\ threads' = [threads EXCEPT
                          ![t].context = Context(th.st.is_sentence_start, th.st.prev_word),
                          ![t].words_to_join = scan.words,
                          ![t].j = scan.j,
                          ![t].k = 0,
                          ![t].parts = <<>>,
                          ![t].pc = "_get_cached"]
            /\ UNCHANGED <<instance, engines>>
            /\ ThreadFrame

\* Lines 803-804: 'ma' is rendered without the cache
MaBypass ==
    \E t \in Threads :
        LET th == threads[t]
        IN  /\ th.pc = "_get_cached"
            /\ th.k < Len(th.words_to_join)
            /\ PartLower(th) = MA
            /\ threads' = [threads EXCEPT
                   ![t].parts = Append(th.parts,
                       transliterate_word(th.words_to_join[th.k + 1], PartContext(th))),
                   ![t].k = th.k + 1]
            /\ UNCHANGED <<instance, engines>>
            /\ ThreadFrame

\* Line 806: if word_lower not in self.cache
CacheTest ==
    \E t \in Threads :
        LET th == threads[t]
        IN  /\ th.pc = "_get_cached"
            /\ th.k < Len(th.words_to_join)
            /\ PartLower(th) # MA
            /\ threads' = [threads EXCEPT ![t].pc =
                   IF PartLower(th) \in DOMAIN engines[th.engine]
                   THEN "cache_load" ELSE "cache_store"]
            /\ UNCHANGED <<instance, engines>>
            /\ ThreadFrame

\* Line 807: self.cache[word_lower] = transliterate_word(word, context)
CacheStore ==
    \E t \in Threads :
        LET th == threads[t]
        IN  /\ th.pc = "cache_store"
            /\ \E v \in {transliterate_word(th.words_to_join[th.k + 1], PartContext(th))} :
                   engines' = [engines EXCEPT ![th.engine] = (PartLower(th) :> v) @@ @]
            /\ threads' = [threads EXCEPT ![t].pc = "cache_load"]
            /\ UNCHANGED instance
            /\ ThreadFrame

\* Lines 808, 750: return self.cache[word_lower], appended to parts
CacheLoad ==
    \E t \in Threads :
        LET th == threads[t]
        IN  /\ th.pc = "cache_load"
            /\ threads' = [threads EXCEPT
                   ![t].parts = Append(th.parts, engines[th.engine][PartLower(th)]),
                   ![t].k = th.k + 1,
                   ![t].pc = "_get_cached"]
            /\ UNCHANGED <<instance, engines>>
            /\ ThreadFrame

\* Lines 739, 751-755: the parts are joined and appended
UnitDone ==
    \E t \in Threads :
        LET th == threads[t]
        IN  /\ th.pc = "_get_cached"
            /\ th.k >= Len(th.words_to_join)
            /\ threads' = [threads EXCEPT
                   ![t].st = AfterUnit(th.st, Concat(th.parts), th.words_to_join, th.j),
                   ![t].pc = "loop"]
            /\ UNCHANGED <<instance, engines>>
            /\ ThreadFrame

\* Line 772: return ''.join(result)
ThreadReturn ==
    \E t \in Threads :
        LET th == threads[t]
        IN  /\ th.pc = "loop"
            /\ th.st.i >= Len(tokenize(th.text))
            /\ threads' = [threads EXCEPT ![t].pc = "returned"]
            /\ UNCHANGED <<instance, engines>>
            /\ ThreadFrame

NextThreads ==
    \/ TestInstance
    \/ Construct
    \/ ReturnInstance
    \/ SeparatorToken
    \/ DictionaryUnit
    \/ StartParts
    \/ MaBypass
    \/ CacheTest
    \/ CacheStore
    \/ CacheLoad
    \/ UnitDone
    \/ ThreadReturn

SpecThreads == InitThreads /\ [][NextThreads]_vars

-----------------------------------------------------------------------------
(* transliterate_word_rules, one step per iteration of its loop *)

w_gaan == <<"g", "a", "a", "n">>
w_koi == <<"k", "o", "i">>
w_kama == <<"k", "a", "m", "a">>
w_kani == <<"k", "a", "n", "i">>
w_kanta == <<"k", "a", "n", "t", "a">>
w_kanka == <<"k", "a", "n", "k", "a">>
w_kanya == <<"k", "a", "n", "y", "a">>
w_chi == <<"c", "h", "i">>
w_Ki == <<"K", "i">>
w_kri == <<"k", "r", "i">>
w_xanta == <<"x", "a", "n", "t", "a">>
w_tranta == <<"t", "r", "a", "n", "t", "a">>
w_gyan == <<"g", "y", "a", "n">>

\* The words rendered step by step
RuleWords ==
    Strings({"k", "n", "t", "a", "i"}, MaxLen) \union
    { <<>>, w_gaan, w_koi, w_kama, w_kani, w_kanta, w_kanka, w_kanya, w_chi, w_Ki,
      w_kri, w_ghar, w_lai, w_janchha, w_Kelvin, w_k \o <<"1">>, w_k \o <<"#">>,
      <<"#">>, <<"k", "u", "i">>, <<"a", "n", "t">>, <<"k", "a", "k", "i">>,
      <<"k", "a", "n", "h", "a">>, <<"k", "i", "n", "g">>, <<"i", "n", "n", "a">>,
      w_xanta, w_tranta, w_gyan }

InitRules ==
    /\ WORD_DICT = EmptyDict
    /\ instance = "None"
    /\ cache = <<>>
    /\ text = <<>>
    /\ out = <<>>
    /\ freshOut = <<>>
    /\ units = <<>>
    /\ history = <<>>
    /\ word \in RuleWords
    /\ stack = <<>>
    /\ ret = <<>>
    /\ NoRules
    /\ NoThreads
    /\ NoBatch
    /\ pc = "rules_loop"

\* One iteration of the loop (lines 410-510) that takes the given branch
RulesIterate(branch) ==
    /\ pos < Len(word)
    /\ \E s \in {RulesStep(word, pos)} :
           /\ s.branch = branch
           /\ result' = result \o s.emit
           /\ pos' = s.pos
           /\ step' = [s EXCEPT !.pos = pos]
    /\ UNCHANGED <<WORD_DICT, instance, cache, text, out, freshOut, units, history,
                   word, stack, ret, threadVars, batchVars, pc>>

\* Lines 414-417: a digit, a non-ASCII character or a bracket
PassThrough ==
    /\ pc = "rules_loop"
    /\ RulesIterate("pass_through")

\* Lines 425-428: 'n' written as chandrabindu
Nasalize ==
    /\ pc = "rules_loop"
    /\ RulesIterate("nasalize")

\* Lines 433-438: a consonant that ends the word
FinalConsonant ==
    /\ pc = "rules_loop"
    /\ RulesIterate("final_consonant")

\* Lines 443-479: a consonant and the vowel after it
ConsonantVowel ==
    /\ pc = "rules_loop"
    /\ RulesIterate("consonant_vowel")

\* Lines 485-490: a consonant before another consonant
Conjunct ==
    /\ pc = "rules_loop"
    /\ RulesIterate("conjunct")

\* Lines 491-493: a consonant before a character no table matches
LoneConsonant ==
    /\ pc = "rules_loop"
    /\ RulesIterate("lone_consonant")

\* Lines 500-502: a vowel with no consonant before it
IndependentVowel ==
    /\ pc = "rules_loop"
    /\ RulesIterate("independent_vowel")

\* Lines 507-510: a character no table matches
UnknownChar ==
    /\ pc = "rules_loop"
    /\ RulesIterate("unknown")

\* Lines 402-403 and 512: the loop is over, the glyphs are joined
RulesReturn ==
    /\ pc = "rules_loop"
    /\ pos >= Len(word)
    /\ ret' = result
    /\ pc' = "rules_done"
    /\ UNCHANGED <<WORD_DICT, instance, cache, text, out, freshOut, units, history,
                   word, stack, rulesVars, threadVars, batchVars>>

NextRules ==
    \/ PassThrough
    \/ Nasalize
    \/ FinalConsonant
    \/ ConsonantVowel
    \/ Conjunct
    \/ LoneConsonant
    \/ IndependentVowel
    \/ UnknownChar
    \/ RulesReturn

SpecRules == InitRules /\ [][NextRules]_vars

-----------------------------------------------------------------------------
(* The claims *)

\* The Devanagari digit of a decimal digit (the numeral mapping the
\* documentation describes)
DevanagariDigit(c) ==
    CASE c = "0" -> "dv_digit_zero"  [] c = "1" -> "dv_digit_one"
      [] c = "2" -> "dv_digit_two"   [] c = "3" -> "dv_digit_three"
      [] c = "4" -> "dv_digit_four"  [] c = "5" -> "dv_digit_five"
      [] c = "6" -> "dv_digit_six"   [] c = "7" -> "dv_digit_seven"
      [] c = "8" -> "dv_digit_eight" [] c = "9" -> "dv_digit_nine"

\* The text of the last call is made only of decimal digits
DigitsOnly(t) == t # <<>> /\ \A k \in 1..Len(t) : IsDigit(t[k])

\* C1: for every input made only of decimal digits, transliterate returns
\* the corresponding Devanagari digits, one per input digit, in order, with
\* nothing else inserted.
C1_DigitsMapped ==
    (pc = "called" /\ DigitsOnly(text))
        => out = [k \in 1..Len(text) |-> DevanagariDigit(text[k])]

\* C2: for every key w of the exception dictionary, transliterate(w) with
\* w as the whole input returns exactly WORD_DICT[w].
C2_DictionaryWins ==
    (pc = "called" /\ text \in DOMAIN WORD_DICT) => out = WORD_DICT[text]

\* C3: the word cache is a pure optimisation: transliterate(text) on an
\* engine whose cache earlier calls have populated returns what an engine
\* with an empty cache returns.
C3_CacheTransparent == pc = "called" => out = freshOut

\* C4: any two calls of transliterate with the same text on the same engine
\* return identical strings, whatever calls were made before or between
\* them.
C4_SameTextSameResult ==
    \A i \in 1..Len(history) : \A j \in 1..Len(history) :
        history[i].text = history[j].text => history[i].out = history[j].out

\* "hun u" was called, then "u hun" (which renders 'hun' in the other
\* context), then "hun u" again
C4_Witness ==
    /\ Len(history) = 3
    /\ history[1].text = w_hun \o SP \o w_u
    /\ history[2].text = w_u \o SP \o w_hun
    /\ history[3].text = history[1].text
    /\ history[2].out = <<"dv_uu", " ", "dv_ha", "dv_sign_u", "dv_candrabindu">>

\* A character of a word token: neither whitespace nor a key of PUNCTUATION
WordChar(c) == ~IsSpace(c) /\ c \notin DOMAIN PUNCTUATION

\* t is w1 + " " + w2 for two words w1 and w2
TwoWords(t) ==
    \E k \in 2..(Len(t) - 1) :
        t[k] = " " /\ \A j \in 1..Len(t) : j # k => WordChar(t[j])

\* The words of such a text, lower-cased
FirstLower(t) == Lower(SubSeq(t, 1, (CHOOSE k \in 1..Len(t) : t[k] = " ") - 1))
SecondLower(t) == Lower(SubSeq(t, (CHOOSE k \in 1..Len(t) : t[k] = " ") + 1, Len(t)))

\* The number of space characters of s
Spaces(s) == Cardinality({k \in 1..Len(s) : s[k] = " "})

\* C5 as stated: in the output for w1 + " " + w2 there is no space between
\* the two renderings if lower(w2) is a joinable postposition and lower(w1)
\* is not a never-join word, and the single space is preserved if lower(w2)
\* is not joinable.
C5_JoinBySuffixSets ==
    (pc = "called" /\ TwoWords(text)) =>
        /\ (SecondLower(text) \in JOINING_SUFFIXES /\ FirstLower(text) \notin NO_JOIN_WORDS)
               => Spaces(out) = 0
        /\ SecondLower(text) \notin JOINING_SUFFIXES => Spaces(out) = 1

\* Whether the words of w1 + " " + w2 are fused, by the tables
FusedPair(l1, l2) ==
    \/ <<l1, l2>> \in COMPOUND_PAIRS
    \/ /\ l2 \in JOINING_SUFFIXES
       /\ l1 \notin NO_JOIN_WORDS
       /\ ~(l2 = <<"m", "a">> /\ \E m \in MA_AS_PRONOUN_AFTER : EndsWith(l1, m))

\* C5, amended: the output for w1 + " " + w2 has no space between the two
\* renderings exactly when the pair is a compound pair, or lower(w2) is a
\* joinable postposition, lower(w1) is not a never-join word and it is not
\* the case that lower(w2) is 'ma' and lower(w1) ends in a word after which
\* 'ma' is the pronoun; otherwise the single space is preserved.
C5_JoinByTables ==
    (pc = "called" /\ TwoWords(text)) =>
        Spaces(out) = IF FusedPair(FirstLower(text), SecondLower(text)) THEN 0 ELSE 1

\* "jab ma" was transliterated: 'ma' is joinable and 'jab' is no never-join
\* word, and the space is kept
C5_Witness ==
    /\ pc = "called"
    /\ text = w_jab \o SP \o w_ma
    /\ out = <<"dv_ja", "dv_ba", " ", "dv_ma">>

\* The whitespace characters of s, in order
Whitespace(s) == SelectSeq(s, IsSpace)

\* C6 as stated: the sequence of whitespace characters of the output is
\* exactly the sequence of whitespace characters of the input.
C6_WhitespaceKept == pc = "called" => Whitespace(out) = Whitespace(text)

\* The tokens of the text with their index (0-based) in the token list
IndexedTokens(t) ==
    [k \in 1..Len(tokenize(t)) |-> [index |-> k - 1, token |-> tokenize(t)[k]]]

\* A space token that lies between two words of no render unit
SpaceOutsideUnits(e) ==
    /\ e.token.type = "space"
    /\ \A n \in 1..Len(units) : ~(units[n].i < e.index /\ e.index < units[n].j)

\* The whitespace characters of the text that no render unit swallowed
WhitespaceOutsideUnits(t) ==
    [n \in 1..Len(SelectSeq(IndexedTokens(t), SpaceOutsideUnits)) |->
        SelectSeq(IndexedTokens(t), SpaceOutsideUnits)[n].token.val[1]]

\* C6, amended: the sequence of whitespace characters of the output is the
\* sequence of whitespace characters of the input without the single
\* whitespace character between two words that were fused into one render
\* unit; every other whitespace character is kept, in kind and in order.
C6_WhitespaceKeptOutsideUnits ==
    pc = "called" => Whitespace(out) = WhitespaceOutsideUnits(text)

\* "ghar ma ghar": the blank inside the fused unit 'gharma' is gone, the
\* blank after it is kept
C6_Witness ==
    /\ pc = "called"
    /\ text = w_ghar \o SP \o w_ma \o SP \o w_ghar
    /\ Len(units) = 2
    /\ Whitespace(out) = <<" ">>

\* The characters that end a sentence (line 763: tval in '.?!|')
SentenceEnd == {".", "?", "!", "|"}

\* The position in t (1-based) of the first character of token k (1-based)
TokenStart(t, k) ==
    1 + Len(Concat([j \in 1..(k - 1) |-> tokenize(t)[j].val]))

\* No word precedes position p in its sentence: every character of a word
\* before p is followed, before p, by a character that ends a sentence
SentenceInitial(t, p) ==
    \A q \in 1..(p - 1) :
        (WordChar(t[q]) /\ t[q] \notin SentenceEnd)
            => \E r \in (q + 1)..(p - 1) : t[r] \in SentenceEnd

\* Token k of t is the word 'ma' in any letter case
IsMaToken(t, k) ==
    tokenize(t)[k].type = "word" /\ Lower(tokenize(t)[k].val) = MA

\* The render unit that starts at token k is the pronoun: it begins with MA
\* and no AA matra follows
PronounUnitAt(k) ==
    \E n \in 1..Len(units) :
        /\ units[n].i = k - 1
        /\ units[n].val[1] = "dv_ma"
        /\ Len(units[n].val) = 1 \/ units[n].val[2] # "dv_sign_aa"

\* C7: a token 'ma' (any letter case) that is the first word of the text or
\* the first word after sentence-ending punctuation renders as the pronoun
\* MA and never as the postposition MA + AA, as in "Ma ghar jaane chhu";
\* and in "Ram ghar ma." the words ghar and ma are one unit GHA RA MA AA.
C7_SentenceInitialMaIsPronoun ==
    pc = "called" =>
        /\ \A k \in 1..Len(tokenize(text)) :
               (IsMaToken(text, k) /\ SentenceInitial(text, TokenStart(text, k)))
                   => PronounUnitAt(k)
        /\ text = RamGharMa =>
               \E n \in 1..Len(units) :
                   /\ units[n].words = <<w_ghar, w_ma>>
                   /\ units[n].val = <<"dv_gha", "dv_ra", "dv_ma", "dv_sign_aa">>

\* The sentence-final copulas after which 'ma' is the pronoun (line 187)
Copulas == { w_chha, <<"c", "h", "h", "a", "n">>, w_chhu, w_ho }

\* C8: when the token 'ma' follows, after one space, a word ending in a
\* sentence-final copula (chha, chhan, chhu, ho), it is not fused to that
\* word and it renders as the pronoun MA, not as the postposition MA + AA.
C8_MaAfterCopulaIsPronoun ==
    (/\ pc = "called"
     /\ TwoWords(text)
     /\ SecondLower(text) = MA
     /\ \E c \in Copulas : EndsWith(FirstLower(text), c))
        => /\ Spaces(out) = 1
           /\ EndsWith(out, <<" ", "dv_ma">>)

\* Characters of the input alphabet that no table maps and no rule writes:
\* a Devanagari character (OM), non-ASCII letters and ASCII symbols that are
\* no key of PUNCTUATION
Unmapped(c) ==
    c \in {"dv_om", KelvinSign, CapitalEAcute, SmallEAcute, "#", "{", "}", "|"}

\* C10: every input character that has no defined mapping appears unchanged
\* in the output, in its original order, also when it is mixed with Roman
\* text in the same word.
C10_UnmappedPassThrough ==
    pc = "called" => SelectSeq(out, Unmapped) = SelectSeq(text, Unmapped)

\* C9: transliterate is total: for every input it returns a string without
\* raising.
C9_NeverRaises == pc # "RecursionError"


\* The independent form the vowel table gives for the pattern v
IndependentForm(v) == VOWELS[CHOOSE k \in 1..Len(VOWELS) : VOWELS[k][1] = v][2]

\* C11: a text that is exactly one pattern of the vowel table is returned as
\* the independent form the table gives for that pattern.
C11_VowelAloneIsIndependent ==
    (pc = "called" /\ text \in VowelTexts) => out = IndependentForm(text)


\* The base glyph the consonant table gives for a pattern, the combining
\* mark the vowel table gives for a pattern
BaseGlyph(pat) == CONSONANTS[CHOOSE k \in 1..Len(CONSONANTS) : CONSONANTS[k][1] = pat][2]
CombiningMark(v) == VOWELS[CHOOSE k \in 1..Len(VOWELS) : VOWELS[k][1] = v][3]

\* The last iteration rendered a consonant pattern and the vowel pattern
\* right after it
ConsonantThenVowel == step.branch = "consonant_vowel"

\* C12 as stated: a consonant pattern followed by a vowel pattern is written
\* as the base glyph followed by exactly the combining mark of the vowel
\* table, and by nothing for the bare 'a'.
C12_MarkFromTable ==
    ConsonantThenVowel =>
        step.emit = BaseGlyph(step.cons) \o
                    (IF step.vow = <<"a">> THEN <<>> ELSE CombiningMark(step.vow))

\* What follows the vowel of the last iteration, in lower case
AfterVowel == Lower(From(word, step.pos + Len(step.cons) + Len(step.vow)))

\* C12 as amended: the mark is the table's, except that a single 'i' that
\* ends a word of more than two characters is written long, and a bare 'a'
\* is written long when exactly ma, ko, ka, ki, lai or le follows it.
C12_MarkFromTableOrContext ==
    ConsonantThenVowel =>
        step.emit = BaseGlyph(step.cons) \o
                    (IF step.vow = <<"a">>
                     THEN IF AfterVowel \in LongABefore THEN <<"dv_sign_aa">> ELSE <<>>
                     ELSE IF step.vow = <<"i">> /\ AfterVowel = <<>> /\ Len(word) > 2
                     THEN <<"dv_sign_ii">>
                     ELSE CombiningMark(step.vow))

\* 'kani': the last iteration wrote 'ni' with the long mark
C12_Witness ==
    /\ word = w_kani
    /\ ConsonantThenVowel
    /\ step.cons = <<"n">>
    /\ step.vow = <<"i">>
    /\ step.emit = <<"dv_na", "dv_sign_ii">>

\* The character at position p (0-based) of w is an 'n' right after a vowel
\* and right before the end of the word or a consonant other than g, y, n
NasalContext(w, p) ==
    LET l == Lower(w)
    IN  /\ p >= 1
        /\ p < Len(l)
        /\ l[p + 1] = "n"
        /\ l[p] \in {"a", "e", "i", "o", "u"}
        /\ \/ p + 1 = Len(l)
           \/ /\ p + 1 < Len(l)
              /\ is_consonant_char(l[p + 2])
              /\ l[p + 2] \notin {"g", "y", "n"}

\* C19: an 'n' after a vowel and before the end of the word or a consonant
\* other than g, y, n is written as the nasalization mark, not as the
\* consonant.
C19_NasalizedBeforeEndOrConsonant ==
    (step.branch # "none" /\ NasalContext(word, step.pos)) =>
        step.emit = <<CHANDRABINDU>>

\* The last iteration rendered a single 'i' that ends the word
FinalSingleI ==
    /\ step.branch \in {"consonant_vowel", "independent_vowel"}
    /\ step.vow = <<"i">>
    /\ pos >= Len(word)

\* C20: a single 'i' that ends the word is written in its long form when
\* the word has more than two letters and in its short form otherwise.
C20_FinalIByWordLength ==
    FinalSingleI =>
        IF Len(word) > 2
        THEN step.emit[Len(step.emit)] \in {"dv_sign_ii", "dv_ii"}
        ELSE step.emit[Len(step.emit)] \in {"dv_sign_i", "dv_i"}


\* C14: a batch call for a list of n texts returns a list of exactly n
\* results, the i-th being the transliteration of the i-th text.
C14_BatchOneResultPerText ==
    texts # <<>> =>
        /\ pc # "AttributeError"
        /\ Len(results) = Len(texts)
        /\ \A i \in 1..Len(texts) : results[i] = transliterate(texts[i], <<>>).out

\* C16: for two words separated by one space whose lower-cased
\* concatenation is a key of the exception dictionary, the output is the
\* dictionary value of the concatenation, whatever the two words are.
C16_DictionaryPairFused ==
    (/\ pc = "called"
     /\ TwoWords(text)
     /\ InDict(FirstLower(text) \o SecondLower(text)))
        => out = WORD_DICT[FirstLower(text) \o SecondLower(text)]

\* str.isalnum() on the characters of the input alphabet, and the
\* characters a word may hold by the claim
Alphanumeric(c) ==
    \/ \E k \in 1..26 : c \in {LowerCase[k], UpperCase[k]}
    \/ c \in Digits
    \/ c \in {KelvinSign, CapitalEAcute, SmallEAcute, "dv_om"}
WordLetter(c) == Alphanumeric(c) \/ c = "'"

\* C18: the tokens of a text, put together, are the text; a word token is
\* a maximal run of alphanumeric characters and apostrophes, a space token
\* a maximal run of whitespace, and every other character is a separator
\* token of its own.
C18_TokensAreRuns ==
    pc = "called" =>
        LET toks == tokenize(text)
        IN  /\ Concat([k \in 1..Len(toks) |-> toks[k].val]) = text
            /\ \A k \in 1..Len(toks) :
                   /\ toks[k].type = "word" =>
                          \A n \in 1..Len(toks[k].val) : WordLetter(toks[k].val[n])
                   /\ toks[k].type = "space" =>
                          \A n \in 1..Len(toks[k].val) : IsSpace(toks[k].val[n])
                   /\ toks[k].type = "punct" =>
                          /\ Len(toks[k].val) = 1
                          /\ ~WordLetter(toks[k].val[1])
                          /\ ~IsSpace(toks[k].val[1])
            /\ \A k \in 1..(Len(toks) - 1) :
                   toks[k].type = toks[k + 1].type => toks[k].type = "punct"


\* The two renderings of 'ma'
Pronoun == <<"dv_ma">>
Postposition == <<"dv_ma", "dv_sign_aa">>

\* Word k of render unit u is 'ma' fused onto the word before it, and it is
\* written as the postposition: as its own part, or, where the dictionary
\* gave the whole unit, as the end of the unit
FusedAsPostposition(u, k) ==
    IF u.parts # <<>> THEN u.parts[k] = Postposition
    ELSE k = Len(u.words) => EndsWith(u.val, Postposition)

\* Render unit u begins, in the output, right after the whitespace character
\* that precedes its first word in the text, if one does
WhitespaceBeforeKept(u) ==
    (u.i > 0 /\ tokenize(text)[u.i].type = "space") =>
        /\ u.at >= 1
        /\ out[u.at] = tokenize(text)[u.i].val[1]

MaxOf(S) == CHOOSE m \in S : \A n \in S : n <= m

\* The tokens before render unit u that are not whitespace (1-based indices)
Before(u) == {j \in 1..u.i : tokenize(text)[j].type # "space"}

\* The first word of render unit u comes right after a separator, after
\* one of the given separators
AfterSeparator(u) ==
    Before(u) # {} /\ tokenize(text)[MaxOf(Before(u))].type = "punct"
AfterOneOf(u, seps) ==
    AfterSeparator(u) /\ tokenize(text)[MaxOf(Before(u))].val[1] \in seps

\* Render unit u begins with 'ma' written as the pronoun
BeginsWithPronoun(u) == u.parts # <<>> /\ u.parts[1] = Pronoun

\* C17 as stated: the first word after any separator is rendered with the
\* sentence-start flag set, and a 'ma' there is the pronoun.
C17_SeparatorSetsSentenceStart ==
    pc = "called" =>
        \A n \in 1..Len(units) :
            AfterSeparator(units[n]) =>
                /\ units[n].context.is_sentence_start
                /\ Lower(units[n].words[1]) = MA => BeginsWithPronoun(units[n])

\* The tokens before render unit u that are words or sentence-ending
\* separators
WordsAndEnds(u) ==
    {j \in 1..u.i :
        \/ tokenize(text)[j].type = "word"
        \/ tokenize(text)[j].type = "punct" /\ tokenize(text)[j].val[1] \in {".", "?", "!"}}

\* C17, amended: only the separators '.', '?' and '!' set the sentence-start
\* flag again; any other separator leaves it as it was.  The flag is set
\* for a word exactly when no word precedes it or one of these three
\* separators stands between the last word before it and itself.  A 'ma'
\* right after '.', '?', '!', ',', ';' or '-' is the pronoun, unless the
\* dictionary gives the unit it begins as a whole.
C17_SentenceEndSetsSentenceStart ==
    pc = "called" =>
        \A n \in 1..Len(units) :
            /\ units[n].context.is_sentence_start =
                   (\/ WordsAndEnds(units[n]) = {}
                    \/ tokenize(text)[MaxOf(WordsAndEnds(units[n]))].type = "punct")
            /\ (/\ Lower(units[n].words[1]) = MA
                /\ AfterOneOf(units[n], {".", "?", "!", ",", ";", "-"})
                /\ units[n].parts # <<>>)
                   => BeginsWithPronoun(units[n])

\* "ghar. ma": the flag is set for 'ma' after the full stop and 'ma' is the
\* pronoun
C17_Witness ==
    /\ pc = "called"
    /\ text = w_ghar \o <<".", " ">> \o w_ma
    /\ Len(units) = 2
    /\ units[2].context.is_sentence_start
    /\ units[2].val = Pronoun


\* What transliterate(a) returns when it is the first call on the engine,
\* and when it is the call right after transliterate(b)
SerialFirst(a) == transliterate(a, <<>>).out
SerialSecond(a, b) == transliterate(a, transliterate(b, <<>>).cache).out

\* The thread other than t
Other(t) == CHOOSE u \in Threads : u # t

\* The lazily built engine was built at most once
BuiltAtMostOnce == Cardinality(DOMAIN engines) <= 1

\* Every call that has returned returned what it returns in one of the two
\* serial orders of the calls
ResultsAsSerial ==
    \A t \in Threads :
        threads[t].pc = "returned" =>
            threads[t].st.result \in
                { SerialFirst(threads[t].text),
                  SerialSecond(threads[t].text, threads[Other(t)].text) }

\* C13: the shared engine is built at most once, and each of two calls
\* running at the same time returns what it returns in one of the two
\* serial orders of the calls, however their accesses to the cache
\* interleave.
C13_ConcurrentCallsAsSerial == BuiltAtMostOnce /\ ResultsAsSerial

\* The patterns of a table
Patterns(table) == {table[k][1] : k \in 1..Len(table)}

\* The table invariant: a pattern comes before every strict prefix of it
PrefixOrdered(table) ==
    \A a, b \in 1..Len(table) :
        (StartsWith(table[b][1], table[a][1]) /\ table[a][1] # table[b][1]) => b < a

\* The patterns of the table that are a prefix of the lower-cased text at p
PrefixesAt(table, txt, p) ==
    {pat \in Patterns(table) : StartsWith(Lower(From(txt, p)), pat)}

\* m names the longest of them and its length, or no pattern when none is
LongestAt(table, txt, p, m) ==
    IF PrefixesAt(table, txt, p) = {} THEN m = NoMatch
    ELSE /\ m.pat \in PrefixesAt(table, txt, p)
         /\ \A pat \in PrefixesAt(table, txt, p) : Len(pat) <= Len(m.pat)
         /\ m.len = Len(m.pat)

\* C21: at every position of every word, match_consonant and match_vowel
\* return the longest pattern of their table that is a prefix of the
\* lower-cased text at that position, with the glyphs the table gives for
\* it, or no match when no pattern is a prefix; in both tables a pattern
\* comes before each of its strict prefixes.
C21_LongestPatternMatched ==
    /\ PrefixOrdered(CONSONANTS)
    /\ PrefixOrdered(VOWELS)
    /\ \A p \in 0..Len(word) :
           /\ LongestAt(CONSONANTS, word, p, match_consonant(word, p))
           /\ LongestAt(VOWELS, word, p, match_vowel(word, p))
           /\ \A k \in 1..Len(CONSONANTS) :
                  CONSONANTS[k][1] = match_consonant(word, p).pat =>
                      match_consonant(word, p).dev = CONSONANTS[k][2]
           /\ \A k \in 1..Len(VOWELS) :
                  VOWELS[k][1] = match_vowel(word, p).pat =>
                      /\ match_vowel(word, p).indep = VOWELS[k][2]
                      /\ match_vowel(word, p).matra = VOWELS[k][3]

\* 'nchh' is matched in "janchha", where 'n' is a prefix as well, and 'aa'
\* in "gaan", where 'a' is
C21_Witness ==
    \/ /\ word = w_janchha
       /\ step.branch = "consonant_vowel"
       /\ step.cons = <<"n", "c", "h", "h">>
    \/ /\ word = w_gaan
       /\ step.branch = "consonant_vowel"
       /\ step.vow = <<"a", "a">>

\* The recognized suffixes that are a proper suffix of w and leave a stem of
\* at least two characters
ProperSuffixes(w) ==
    {s \in JOINING_SUFFIXES : EndsWith(Lower(w), s) /\ Len(w) - Len(s) >= 2}

\* The longest of them
LongestSuffix(w) ==
    CHOOSE s \in ProperSuffixes(w) : \A t \in ProperSuffixes(w) : Len(t) <= Len(s)

\* The stem by exact dictionary lookup, else by the phonetic engine alone
StemRendering(stem) ==
    IF InDict(Lower(stem)) THEN WORD_DICT[Lower(stem)]
    ELSE transliterate_word_rules(stem)

\* The Devanagari form of a suffix: what it is written as after a word
SuffixForm(s) == transliterate_word(s, Context(FALSE, <<>>))

\* What the suffix resolver is to return for w
SuffixResolved(w) ==
    StemRendering(UpTo(w, Len(w) - Len(LongestSuffix(w)))) \o SuffixForm(LongestSuffix(w))

\* C22: a word that is no dictionary key and ends in a recognized suffix
\* after a stem of two or more characters is rendered as its stem before the
\* longest such suffix, by exact dictionary lookup or else by the phonetic
\* engine alone, followed by the Devanagari form of that suffix, whatever
\* the position of the word in the sentence.
C22_StemThenSuffixForm ==
    (pc = "split_done" /\ ~InDict(Lower(text)) /\ ProperSuffixes(text) # {}) =>
        out = SuffixResolved(text)

\* The word is handed to the suffix resolver
Resolved(w) == ~InDict(Lower(w)) /\ ProperSuffixes(w) # {}

\* Its stem and its suffix as the resolver renders them
StemOf(w) == UpTo(w, Len(w) - Len(LongestSuffix(w)))
StemRendered(w) == transliterate_word(StemOf(w), SentenceStartContext)
SuffixRendered(w) == transliterate_word(LongestSuffix(w), SentenceStartContext)

\* The rendering ends in a consonant glyph that carries no vowel mark
EndsInBareConsonant(r) == r # <<>> /\ r[Len(r)] \in ConsonantGlyphs

\* The rendering begins with a consonant glyph
ConsonantInitial(r) == r # <<>> /\ r[1] \in ConsonantGlyphs

\* The resolver has attached a consonant-initial suffix to a stem whose
\* rendering ends in a bare consonant glyph
AttachedToBareConsonant ==
    /\ pc = "split_done"
    /\ Resolved(text)
    /\ EndsInBareConsonant(StemRendered(text))
    /\ ConsonantInitial(SuffixRendered(text))

\* C23 as stated: a consonant-initial suffix attached to a stem whose
\* rendering ends in a bare consonant glyph is preceded by the halant.
C23_HalantBeforeSuffix ==
    AttachedToBareConsonant =>
        out = StemRendered(text) \o <<HALANT>> \o SuffixRendered(text)

\* C23, amended: a consonant-initial suffix attached to a stem whose
\* rendering ends in a bare consonant glyph follows that glyph directly;
\* no halant is put between the stem and the suffix.
C23_SuffixFollowsDirectly ==
    AttachedToBareConsonant =>
        /\ out = StemRendered(text) \o SuffixRendered(text)
        /\ out[Len(StemRendered(text))] \in ConsonantGlyphs
        /\ out[Len(StemRendered(text)) + 1] \in ConsonantGlyphs

\* "gharko" is returned as घरको
C23_Witness ==
    /\ AttachedToBareConsonant
    /\ text = w_ghar \o w_ko
    /\ out = <<"dv_gha", "dv_ra", "dv_ka", "dv_sign_o">>

\* C24: a postposition typed onto a stem gives what the same postposition
\* typed after a space gives: for every stem s and postposition p and
\* whatever comes before, transliterate(pre + s + p) on a fresh engine
\* equals transliterate(pre + s + " " + p).
C24_AttachedAsSpaced ==
    \A pre \in Positions, s \in Stems, p \in Postpositions :
        (pc = "called" /\ text = pre \o s \o p) =>
            freshOut = transliterate(pre \o s \o SP \o p, <<>>).out

\* The glyphs that begin the rendering of a consonant pattern
BaseGlyphs == {CONSONANTS[k][2][1] : k \in 1..Len(CONSONANTS)}

\* C25: in what the phonetic engine has written, every halant is directly
\* followed by the base glyph of a consonant; a halant stands last only
\* while the loop is still to render the consonant after it, never in the
\* word returned.
C25_HalantBeforeBaseGlyph ==
    \A k \in 1..Len(result) :
        result[k] = HALANT =>
            IF k < Len(result) THEN result[k + 1] \in BaseGlyphs
            ELSE pc = "rules_loop" /\ pos < Len(word)

\* The values of the tokens, in order
TokenValues(tokens) == [k \in 1..Len(tokens) |-> tokens[k].val]

\* The token list of a render unit u of the text t is its words with one
\* whitespace token of one character between each two of them
WordsOneWhitespaceApart(t, u) ==
    /\ u.j - u.i = 2 * Len(u.words) - 1
    /\ \A m \in 1..Len(u.words) :
           tokenize(t)[u.i + 2 * m - 1] = Token("word", u.words[m])
    /\ \A m \in 1..(Len(u.words) - 1) :
           /\ tokenize(t)[u.i + 2 * m].type = "space"
           /\ Len(tokenize(t)[u.i + 2 * m].val) = 1
           /\ IsSpace(tokenize(t)[u.i + 2 * m].val[1])

RECURSIVE Fusions(_)
\* The number of fusions in a list of render units: one less than the words
\* of each
Fusions(us) ==
    IF us = <<>> THEN 0 ELSE (Len(Head(us).words) - 1) + Fusions(Tail(us))

\* C26: the tokens cover the text character by character; every render
\* unit is made of words that lie exactly one whitespace character apart in
\* the text, with no punctuation and no second whitespace character between
\* them; the output has one whitespace character less than the text for
\* each fusion, and the whitespace characters it has are those of the text
\* outside the fused units, unchanged and in order.
C26_FusionTakesOneWhitespace ==
    pc = "called" =>
        /\ Concat(TokenValues(tokenize(text))) = text
        /\ \A n \in 1..Len(units) : WordsOneWhitespaceApart(text, units[n])
        /\ Len(Whitespace(text)) - Len(Whitespace(out)) = Fusions(units)
        /\ Whitespace(out) = WhitespaceOutsideUnits(text)

\* "ghar<TAB>ma" is fused into one unit and the tab is gone, while in
\* "ghar  ma" and "ghar.ma" nothing is fused
C26_Witness ==
    /\ pc = "called"
    /\ text = w_ghar \o TAB \o w_ma
    /\ Len(units) = 1
    /\ units[1].words = <<w_ghar, w_ma>>
    /\ Whitespace(out) = <<>>
    /\ Len(transliterate(w_ghar \o SP \o SP \o w_ma, <<>>).units) = 2
    /\ Len(transliterate(w_ghar \o <<".">> \o w_ma, <<>>).units) = 2

=====
